---- MODULE Spec2Model ----
(***************************************************************************)
(* Model of the notebook cll_t2d_common_analysis: a linear pipeline of     *)
(* cells.  Each code cell is one action; pc names the next cell to run.    *)
(*                                                                         *)
(* Feature names (the columns of the input CSV other than 'label') are     *)
(* modelled as the integers 1..n in the column order of the file.          *)
(* The input file is abstracted by what the three estimators return on it  *)
(* (they are deterministic for the fixed alpha / random_state of the       *)
(* notebook): the Lasso coefficient vector, the random-forest importance   *)
(* vector and the order in which RFE's SVM rounds discard features.        *)
(* Matrices are symbolic: a column list and a tag telling whether the      *)
(* values are the raw ones of the file or the standardized ones.           *)
(***************************************************************************)
EXTENDS Integers, Sequences, FiniteSets, TLC

\* ---------------------------------------------------------------- bounds

\* Largest number of feature columns of an input file.
MaxFeatures == 11

\* Only the first MaxInformative columns may get a non-zero Lasso
\* coefficient or a non-zero forest importance (feature names are
\* interchangeable, so which columns these are does not matter).
MaxInformative == 2

\* Values a Lasso coefficient may take, and values a forest importance may
\* take (abstract units).
CoefValues == {-1, 0, 2}
ImpValues == {0, 3}

\* ------------------------------------------------------ program constants

\* RFE(estimator=svm, n_features_to_select=10)
n_features_to_select == 10

\* RFE's default step: features removed per round.
step == 1

ScoredPath == "results/cll_t2d_multimode_selected_features.csv"
TTestPath == "results/cll_t2d_multimode_t_test_results.csv"

ScoredKeys == <<"Feature", "Lasso", "Random Forest", "SVM-RFE">>
TTestKeys == <<"Feature", "t-statistic", "p-value">>

\* ----------------------------------------------------------------- state

VARIABLES
    pc,                         \* next cell to run, "done", or "error"
    file,                       \* clean_data/merged_cll_t2d_data.csv
    data,                       \* DataFrame read from the file
    X, y,                       \* features / label
    X_scaled,                   \* output of the StandardScaler
    lasso, rf, rfe,             \* the fitted estimators
    lasso_feature_importance,
    rf_feature_importance,
    svmrfe_feature_importance,
    intersection_features,      \* the set object of cell 10 ...
    iter_order,                 \* ... and the order in which it iterates
    selected_features,          \* DataFrame of cell 11
    t_test_results_df,          \* DataFrame of cell 12
    common_biomarkers_df,       \* DataFrame of cell 12
    results,                    \* results/ directory: path -> writes so far
    second,                     \* TRUE in a re-run of the notebook
    first_run                   \* what the first run produced (re-run only)

vars == <<pc, file, data, X, y, X_scaled, lasso, rf, rfe,
          lasso_feature_importance, rf_feature_importance,
          svmrfe_feature_importance, intersection_features, iter_order,
          selected_features, t_test_results_df, common_biomarkers_df,
          results, second, first_run>>

\* ------------------------------------------------------------- helpers

Abs(v) == IF v < 0 THEN -v ELSE v

Min(a, b) == IF a < b THEN a ELSE b

Max(a, b) == IF a > b THEN a ELSE b

Range(s) == {s[i] : i \in 1..Len(s)}

RECURSIVE InjSeqs(_, _)
\* All sequences of k distinct elements of S.
InjSeqs(S, k) ==
    IF k = 0 THEN {<<>>}
    ELSE UNION {{<<v>> \o s : s \in InjSeqs(S \ {v}, k - 1)} : v \in S}

\* The orders in which a Python set of str may iterate: the slot order
\* follows the strings' hashes, which are salted per process.
IterationOrders(S) == InjSeqs(S, Cardinality(S))

\* The cells in execution order.
Cells == <<"load", "split", "scale", "lasso", "rf", "svmrfe", "intersect",
           "compile", "validate", "done">>

Pos(c) == CHOOSE i \in 1..Len(Cells) : Cells[i] = c

\* Cell c has run to completion in the current run.
Executed(c) == pc # "error" /\ Pos(pc) > Pos(c)

\* ------------------------------------------------------------ input files

\* The vectors over N columns with values of V on the informative columns
\* and 0 elsewhere.
SparseVectors(N, V) ==
    {[f \in 1..N |-> IF f <= MaxInformative THEN g[f] ELSE 0] :
        g \in [1..Min(N, MaxInformative) -> V]}

FilesOf(N) ==
    {[n |-> N, coef |-> c, imp |-> m, elim |-> e] :
        c \in SparseVectors(N, CoefValues),
        m \in SparseVectors(N, ImpValues),
        e \in InjSeqs(1..N, Max(N - n_features_to_select, 0))}

\* ------------------------------------------------- DataFrames, matrices

NoMatrix == [columns |-> <<>>, label |-> FALSE, values |-> "unset"]

NoFrame == [columns |-> <<>>, rows |-> <<>>]

\* pd.read_csv: one column per feature plus 'label', the file's raw values.
read_csv(f) ==
    [columns |-> [i \in 1..f.n |-> i], label |-> TRUE, values |-> "raw"]

\* data.drop(columns=['label'])
drop_label(df) == [df EXCEPT !.label = FALSE]

\* StandardScaler().fit_transform(M): a new matrix, M itself is not touched.
fit_transform(M) == [M EXCEPT !.values = "standardized"]

\* pd.DataFrame(rows) for a list of dicts: the columns are the keys of the
\* dicts, so an empty list gives a frame without columns.
DataFrame(rows, keys) ==
    [columns |-> IF rows = <<>> THEN <<>> ELSE keys, rows |-> rows]

\* The text df.to_csv(path, index=False) writes: the header line made of
\* the frame's columns, then one line per row.
csv_text(df) == [header |-> df.columns, lines |-> df.rows]

\* df.to_csv(path, index=False) on the results directory fs.
to_csv(fs, path, df) == [fs EXCEPT ![path] = Append(@, csv_text(df))]

\* pd.DataFrame({'Feature': X.columns, 'Importance': importance})
importance_frame(M, importance) ==
    [i \in 1..Len(M.columns) |->
        [Feature |-> M.columns[i], Importance |-> importance[i]]]

RECURSIVE InsertDesc(_, _)
\* Insert row r into the table t, sorted by Importance descending, after
\* the rows that are not smaller.
InsertDesc(t, r) ==
    IF t = <<>> THEN <<r>>
    ELSE IF Head(t).Importance >= r.Importance
         THEN <<Head(t)>> \o InsertDesc(Tail(t), r)
         ELSE <<r>> \o t

RECURSIVE sort_values(_)
\* feature_importance.sort_values(by='Importance', ascending=False)
\* (rows of equal importance are kept in their former order here; no
\* property below depends on the order of ties).
sort_values(t) ==
    IF t = <<>> THEN <<>>
    ELSE InsertDesc(sort_values(SubSeq(t, 1, Len(t) - 1)), t[Len(t)])

IsPositive(r) == r.Importance > 0

IsRetainedRank(r) == r.Importance = 1

\* feature_importance[feature_importance['Importance'] > 0]
lasso_select(t) == SelectSeq(t, IsPositive)

rf_select(t) == SelectSeq(t, IsPositive)

\* What the markdown of cell 9 announces: only the retained features.
svmrfe_select_top(t) == SelectSeq(t, IsRetainedRank)

\* feature_importance[feature_importance['Importance'] > 0.0]
svmrfe_select(t) == SelectSeq(t, IsPositive)

\* ------------------------------------------------------------ estimators

NoEstimator == [X |-> NoMatrix, y |-> "unset", out |-> <<>>]

NoRFE == [X |-> NoMatrix, y |-> "unset", support_ |-> {}, ranking_ |-> <<>>]

\* Lasso(alpha=0.01).fit(M, lab): the estimator with its coef_.
lasso_fit(M, lab) == [X |-> M, y |-> lab, out |-> file.coef]

\* RandomForestClassifier(n_estimators=100, random_state=42).fit(M, lab):
\* the estimator with its feature_importances_.
rf_fit(M, lab) == [X |-> M, y |-> lab, out |-> file.imp]

RECURSIVE rfe_rounds(_, _, _, _)
\* The elimination loop of RFE.fit: while more than n features are
\* supported, the SVM is refitted on them, the `step` least important of
\* them (never more than the surplus) leave the support, and the rank of
\* every feature outside the support grows by one.  elim lists, round
\* after round, the feature the SVM weights put last.
rfe_rounds(support, ranking, elim, n) ==
    IF Cardinality(support) > n
    THEN LET threshold == Min(step, Cardinality(support) - n)
             out == Range(SubSeq(elim, 1, threshold))
             sup == support \ out
             rnk == [f \in DOMAIN ranking |->
                        IF f \in sup THEN ranking[f] ELSE ranking[f] + 1]
         IN rfe_rounds(sup, rnk, SubSeq(elim, threshold + 1, Len(elim)), n)
    ELSE [support_ |-> support, ranking_ |-> ranking]

\* RFE(estimator, n_features_to_select=n).fit(M, lab): support_ and
\* ranking_ start as all-selected / all ones.
RFE_fit(M, lab, n) ==
    LET feats == Range(M.columns)
        r == rfe_rounds(feats, [f \in 1..Len(M.columns) |-> 1], file.elim, n)
    IN [X |-> M, y |-> lab, support_ |-> r.support_, ranking_ |-> r.ranking_]

\* Cell 9 with the target count off by one.
rfe_fit_eleven(M, lab) == RFE_fit(M, lab, n_features_to_select + 1)

\* rfe = RFE(estimator=svm, n_features_to_select=10); rfe.fit(X, y)
rfe_fit(M, lab) == RFE_fit(M, lab, n_features_to_select)

\* The matrix each selector is fitted on.
lasso_fit_X_scaled == X_scaled

lasso_fit_X == X

rf_fit_X == X

rfe_fit_X == X

\* set(table['Feature'])
feature_set(t) == {t[i].Feature : i \in 1..Len(t)}

\* A union where cell 10 intersects.
union_features(l, r, s) == (l \cup r) \cup s

\* lasso_features.intersection(rf_features).intersection(svmrfe_features)
intersect_features(l, r, s) == (l \cap r) \cap s

\* ------------------------------------------------------- cells 11 and 12

\* table[table['Feature'] == feature]['Importance'].values
importance_values(t, feature) ==
    LET Matches(r) == r.Feature = feature
        m == SelectSeq(t, Matches)
    IN [i \in 1..Len(m) |-> m[i].Importance]

\* The first row of the table, whatever its feature.
first_row_score(t, feature) == <<t[1].Importance>>

\* ...values[0]: a one-element sequence holding the score, or the empty
\* sequence when the index is out of range (IndexError).
score(t, feature) == SubSeq(importance_values(t, feature), 1, 1)

RECURSIVE compile_rows(_, _, _, _)
\* The loop of cell 11 over the features in iteration order: the rows
\* appended until the loop ends or a lookup fails.
compile_rows(order, lt, rt, st) ==
    IF order = <<>> THEN [rows |-> <<>>, raised |-> FALSE]
    ELSE LET feature == Head(order)
             lasso_score == score(lt, feature)
             rf_score == score(rt, feature)
             svmrfe_score == score(st, feature)
         IN IF lasso_score = <<>> \/ rf_score = <<>> \/ svmrfe_score = <<>>
            THEN [rows |-> <<>>, raised |-> TRUE]
            ELSE LET rest == compile_rows(Tail(order), lt, rt, st)
                 IN [rows |-> <<[Feature |-> feature,
                                 Lasso |-> lasso_score[1],
                                 Random_Forest |-> rf_score[1],
                                 SVM_RFE |-> svmrfe_score[1]]>> \o rest.rows,
                     raised |-> rest.raised]

\* ttest_ind(group1, group2) for the two label groups of one column: the
\* statistic and the p-value are functions of the column's values.
ttest_ind(df, feature) ==
    [t_stat |-> [of |-> "t", feature |-> feature, values |-> df.values],
     p_value |-> [of |-> "p", feature |-> feature, values |-> df.values]]

\* The loop of cell 12 without its first feature.
t_test_rows_skip(common_biomarkers, df) ==
    [i \in 1..(Len(common_biomarkers) - 1) |->
        LET feature == common_biomarkers[i + 1]
        IN [Feature |-> feature,
            t_statistic |-> ttest_ind(df, feature).t_stat,
            p_value |-> ttest_ind(df, feature).p_value]]

\* The loop of cell 12: one dict per common biomarker, in list order.
t_test_rows(common_biomarkers, df) ==
    [i \in 1..Len(common_biomarkers) |->
        LET feature == common_biomarkers[i]
        IN [Feature |-> feature,
            t_statistic |-> ttest_ind(df, feature).t_stat,
            p_value |-> ttest_ind(df, feature).p_value]]

\* Cell 12 saving under the path of cell 11.
t_test_path_pasted == ScoredPath

\* Where cell 12 saves its table.
t_test_path == TTestPath

\* ------------------------------------------------------------------ cells

NoRun == [intersection |-> {}, selected |-> NoFrame, ttest |-> NoFrame,
          scored_csv |-> csv_text(NoFrame), ttest_csv |-> csv_text(NoFrame)]

Init ==
    /\ pc = "load"
    /\ \E N \in 1..MaxFeatures : file \in FilesOf(N)
    /\ data = NoMatrix
    /\ X = NoMatrix
    /\ y = "unset"
    /\ X_scaled = NoMatrix
    /\ lasso = NoEstimator
    /\ rf = NoEstimator
    /\ rfe = NoRFE
    /\ lasso_feature_importance = <<>>
    /\ rf_feature_importance = <<>>
    /\ svmrfe_feature_importance = <<>>
    /\ intersection_features = {}
    /\ iter_order = <<>>
    /\ selected_features = NoFrame
    /\ t_test_results_df = NoFrame
    /\ common_biomarkers_df = NoMatrix
    /\ results = [p \in {ScoredPath, TTestPath} |-> <<>>]
    /\ second = FALSE
    /\ first_run = NoRun

\* Cell 2: data = pd.read_csv(...)
Load ==
    /\ pc = "load"
    /\ data' = read_csv(file)
    /\ pc' = "split"
    /\ UNCHANGED <<file, X, y, X_scaled, lasso, rf, rfe,
                   lasso_feature_importance, rf_feature_importance,
                   svmrfe_feature_importance, intersection_features,
                   iter_order, selected_features, t_test_results_df,
                   common_biomarkers_df, results, second, first_run>>

\* Cell 3: X = data.drop(columns=['label']); y = data['label']
Split ==
    /\ pc = "split"
    /\ X' = drop_label(data)
    /\ y' = "label"
    /\ pc' = "scale"
    /\ UNCHANGED <<file, data, X_scaled, lasso, rf, rfe,
                   lasso_feature_importance, rf_feature_importance,
                   svmrfe_feature_importance, intersection_features,
                   iter_order, selected_features, t_test_results_df,
                   common_biomarkers_df, results, second, first_run>>

\* Cell 4: X_scaled = scaler.fit_transform(X)
Scale ==
    /\ pc = "scale"
    /\ X_scaled' = fit_transform(X)
    /\ pc' = "lasso"
    /\ UNCHANGED <<file, data, X, y, lasso, rf, rfe,
                   lasso_feature_importance, rf_feature_importance,
                   svmrfe_feature_importance, intersection_features,
                   iter_order, selected_features, t_test_results_df,
                   common_biomarkers_df, results, second, first_run>>

\* Cell 7: Lasso, |coef_|, sorted table, rows with importance > 0.
LassoCell ==
    /\ pc = "lasso"
    /\ LET fitted == lasso_fit(lasso_fit_X, y)
           importance == [i \in 1..Len(fitted.out) |-> Abs(fitted.out[i])]
           feature_importance == sort_values(importance_frame(X, importance))
       IN /\ lasso' = fitted
          /\ lasso_feature_importance' = lasso_select(feature_importance)
    /\ pc' = "rf"
    /\ UNCHANGED <<file, data, X, y, X_scaled, rf, rfe,
                   rf_feature_importance,
                   svmrfe_feature_importance, intersection_features,
                   iter_order, selected_features, t_test_results_df,
                   common_biomarkers_df, results, second, first_run>>

\* Cell 8: random forest, feature_importances_, sorted table, rows > 0.
RFCell ==
    /\ pc = "rf"
    /\ LET fitted == rf_fit(rf_fit_X, y)
           importance == fitted.out
           feature_importance == sort_values(importance_frame(X, importance))
       IN /\ rf' = fitted
          /\ rf_feature_importance' = rf_select(feature_importance)
    /\ pc' = "svmrfe"
    /\ UNCHANGED <<file, data, X, y, X_scaled, lasso, rfe,
                   lasso_feature_importance,
                   svmrfe_feature_importance, intersection_features,
                   iter_order, selected_features, t_test_results_df,
                   common_biomarkers_df, results, second, first_run>>

\* Cell 9: SVM-RFE, ranking_, sorted table, rows with rank > 0.0.
SVMRFECell ==
    /\ pc = "svmrfe"
    /\ LET fitted == rfe_fit(rfe_fit_X, y)
           feature_importance ==
               sort_values(importance_frame(X, fitted.ranking_))
       IN /\ rfe' = fitted
          /\ svmrfe_feature_importance' = svmrfe_select(feature_importance)
    /\ pc' = "intersect"
    /\ UNCHANGED <<file, data, X, y, X_scaled, lasso, rf,
                   lasso_feature_importance, rf_feature_importance,
                   intersection_features,
                   iter_order, selected_features, t_test_results_df,
                   common_biomarkers_df, results, second, first_run>>

\* Cell 10: the intersection of the three feature sets.  The new set
\* object iterates in an order fixed by the process's string hashes.
Intersect ==
    /\ pc = "intersect"
    /\ LET lasso_features == feature_set(lasso_feature_importance)
           rf_features == feature_set(rf_feature_importance)
           svmrfe_features == feature_set(svmrfe_feature_importance)
       IN intersection_features' =
              intersect_features(lasso_features, rf_features, svmrfe_features)
    /\ iter_order' \in IterationOrders(intersection_features')
    /\ pc' = "compile"
    /\ UNCHANGED <<file, data, X, y, X_scaled, lasso, rf, rfe,
                   lasso_feature_importance, rf_feature_importance,
                   svmrfe_feature_importance,
                   selected_features, t_test_results_df,
                   common_biomarkers_df, results, second, first_run>>

\* Cell 11: one row of scores per common feature, then to_csv.  A failed
\* lookup raises before selected_features is bound or anything is saved.
Compile ==
    /\ pc = "compile"
    /\ LET r == compile_rows(iter_order, lasso_feature_importance,
                             rf_feature_importance,
                             svmrfe_feature_importance)
       IN IF r.raised
          THEN /\ pc' = "error"
               /\ UNCHANGED <<selected_features, results>>
          ELSE /\ selected_features' = DataFrame(r.rows, ScoredKeys)
               /\ results' = to_csv(results, ScoredPath, selected_features')
               /\ pc' = "validate"
    /\ UNCHANGED <<file, data, X, y, X_scaled, lasso, rf, rfe,
                   lasso_feature_importance, rf_feature_importance,
                   svmrfe_feature_importance, intersection_features,
                   iter_order, t_test_results_df,
                   common_biomarkers_df, second, first_run>>

\* Cell 12: the file is read again, the common biomarkers' columns and the
\* label are put in a new frame, one t-test per biomarker, then to_csv.
Validate ==
    /\ pc = "validate"
    /\ data' = read_csv(file)
    /\ X' = drop_label(data')
    /\ y' = "label"
    /\ LET common_biomarkers == iter_order
           df == [columns |-> common_biomarkers, label |-> TRUE,
                  values |-> data'.values]
       IN /\ common_biomarkers_df' = df
          /\ t_test_results_df' =
                 DataFrame(t_test_rows(common_biomarkers, df), TTestKeys)
    /\ results' = to_csv(results, t_test_path, t_test_results_df')
    /\ pc' = "done"
    /\ UNCHANGED <<file, X_scaled, lasso, rf, rfe,
                   lasso_feature_importance, rf_feature_importance,
                   svmrfe_feature_importance, intersection_features,
                   iter_order, selected_features, second, first_run>>

Next ==
    \/ Load
    \/ Split
    \/ Scale
    \/ LassoCell
    \/ RFCell
    \/ SVMRFECell
    \/ Intersect
    \/ Compile
    \/ Validate

Spec == Init /\ [][Next]_vars

\* ---------------------------------------------------------------- re-run

Last(q) == q[Len(q)]

\* Restart the kernel and run every cell again on the same input file: the
\* namespace is empty again, the results directory and the file stay.
Rerun ==
    /\ pc = "done"
    /\ ~second
    /\ second' = TRUE
    /\ first_run' = [intersection |-> intersection_features,
                     selected |-> selected_features,
                     ttest |-> t_test_results_df,
                     scored_csv |-> Last(results[ScoredPath]),
                     ttest_csv |-> Last(results[TTestPath])]
    /\ pc' = "load"
    /\ data' = NoMatrix
    /\ X' = NoMatrix
    /\ y' = "unset"
    /\ X_scaled' = NoMatrix
    /\ lasso' = NoEstimator
    /\ rf' = NoEstimator
    /\ rfe' = NoRFE
    /\ lasso_feature_importance' = <<>>
    /\ rf_feature_importance' = <<>>
    /\ svmrfe_feature_importance' = <<>>
    /\ intersection_features' = {}
    /\ iter_order' = <<>>
    /\ selected_features' = NoFrame
    /\ t_test_results_df' = NoFrame
    /\ common_biomarkers_df' = NoMatrix
    /\ UNCHANGED <<file, results>>

NextRerun ==
    \/ Next
    \/ Rerun

SpecRerun == Init /\ [][NextRerun]_vars

\* --------------------------------------------------------------- claims

LassoSet == feature_set(lasso_feature_importance)

RFSet == feature_set(rf_feature_importance)

SVMRFESet == feature_set(svmrfe_feature_importance)

AllFeatures == 1..file.n

RowFeatures(rows) == {rows[i].Feature : i \in 1..Len(rows)}

\* The importance feature f carries in table t.
ScoresOf(t, f) == {t[i].Importance : i \in {j \in 1..Len(t) : t[j].Feature = f}}

\* C1: once cell 10 has run, the intersection is a subset of each of the
\* three selected sets, a feature is in it exactly when it is in all three,
\* and iterating over it yields every member once (no duplicates).
C1_IntersectionIsExact ==
    Executed("intersect") =>
        /\ intersection_features \subseteq LassoSet
        /\ intersection_features \subseteq RFSet
        /\ intersection_features \subseteq SVMRFESet
        /\ \A f \in AllFeatures :
               f \in intersection_features <=>
                   (f \in LassoSet /\ f \in RFSet /\ f \in SVMRFESet)
        /\ Range(iter_order) = intersection_features
        /\ Len(iter_order) = Cardinality(intersection_features)

\* C1 witness: cell 10 has run and produced a non-empty intersection that
\* is strictly smaller than the Lasso set.
C1_Witness ==
    /\ Executed("intersect")
    /\ intersection_features # {}
    /\ intersection_features # LassoSet

\* C2 (as claimed): with an empty intersection cells 11 and 12 do not
\* raise, and each output file holds its header row (Feature, Lasso,
\* Random Forest, SVM-RFE / Feature, t-statistic, p-value) and no data row.
C2_EmptyIntersectionHeaders ==
    /\ (Executed("intersect") /\ intersection_features = {}) => pc # "error"
    /\ (pc = "done" /\ intersection_features = {}) =>
           /\ Last(results[ScoredPath]).header = ScoredKeys
           /\ Last(results[ScoredPath]).lines = <<>>
           /\ Last(results[TTestPath]).header = TTestKeys
           /\ Last(results[TTestPath]).lines = <<>>

\* C3: after the pipeline completes, the scored table and the t-test table
\* each have exactly |IntersectionSet| rows, one per feature of the
\* intersection, no feature twice, none outside it.
C3_RowPerFeature ==
    pc = "done" =>
        /\ Len(selected_features.rows) = Cardinality(intersection_features)
        /\ Len(t_test_results_df.rows) = Cardinality(intersection_features)
        /\ RowFeatures(selected_features.rows) = intersection_features
        /\ RowFeatures(t_test_results_df.rows) = intersection_features

\* C3 witness: a completed run whose intersection has at least two
\* features.
C3_Witness ==
    /\ pc = "done"
    /\ Cardinality(intersection_features) >= 2
    /\ Len(t_test_results_df.rows) >= 2

\* C4: the lookups of cell 11 never index an empty result, and once cell 11
\* has run every feature of the intersection has a row whose Lasso, Random
\* Forest and SVM-RFE entries are exactly the importance that feature has
\* in the corresponding selector's table.
C4_ScoresMatch ==
    /\ pc # "error"
    /\ Executed("compile") =>
           /\ \A f \in intersection_features :
                  \E i \in 1..Len(selected_features.rows) :
                      selected_features.rows[i].Feature = f
           /\ \A i \in 1..Len(selected_features.rows) :
                  LET r == selected_features.rows[i]
                  IN /\ ScoresOf(lasso_feature_importance, r.Feature)
                            = {r.Lasso}
                     /\ ScoresOf(rf_feature_importance, r.Feature)
                            = {r.Random_Forest}
                     /\ ScoresOf(svmrfe_feature_importance, r.Feature)
                            = {r.SVM_RFE}
                     /\ r.Lasso = Abs(file.coef[r.Feature])
                     /\ r.Random_Forest = file.imp[r.Feature]
                     /\ r.SVM_RFE = rfe.ranking_[r.Feature]

\* C4 witness: cell 11 has compiled two rows with different Lasso scores.
C4_Witness ==
    /\ Executed("compile")
    /\ \E i, j \in 1..Len(selected_features.rows) :
           selected_features.rows[i].Lasso # selected_features.rows[j].Lasso

RankSet == {rfe.ranking_[f] : f \in AllFeatures}

C6_SelectsTopTen ==
    (Executed("svmrfe") /\ file.n > n_features_to_select) =>
        /\ SVMRFESet = rfe.support_
        /\ Cardinality(SVMRFESet) = n_features_to_select

\* C7 (as claimed): a second run on the same file produces the same
\* intersection, the same tables and the same two files, rows in the same
\* order.
C7_RerunIdentical ==
    (second /\ pc = "done") =>
        /\ intersection_features = first_run.intersection
        /\ selected_features = first_run.selected
        /\ t_test_results_df = first_run.ttest
        /\ Last(results[ScoredPath]) = first_run.scored_csv
        /\ Last(results[TTestPath]) = first_run.ttest_csv

\* C8 (as claimed): an output file is written only after every step,
\* the Validator included, has completed.
C8_WrittenOnlyAtEnd ==
    \A p \in {ScoredPath, TTestPath} : results[p] # <<>> => pc = "done"

\* One step leaves alone every derived entity computed before it, writes
\* each file at most once, the scored file only in cell 11 and the t-test
\* file only in cell 12, each holding its table; at the end both files
\* have been written.
C8_Step ==
    /\ Executed("lasso") =>
           lasso_feature_importance' = lasso_feature_importance
    /\ Executed("rf") => rf_feature_importance' = rf_feature_importance
    /\ Executed("svmrfe") =>
           svmrfe_feature_importance' = svmrfe_feature_importance
    /\ Executed("intersect") =>
           /\ intersection_features' = intersection_features
           /\ iter_order' = iter_order
    /\ Executed("compile") => selected_features' = selected_features
    /\ Executed("validate") => t_test_results_df' = t_test_results_df
    /\ Len(results'[ScoredPath]) <= 1
    /\ Len(results'[TTestPath]) <= 1
    /\ results'[ScoredPath] # results[ScoredPath] =>
           /\ pc = "compile"
           /\ results'[ScoredPath] = <<csv_text(selected_features')>>
    /\ results'[TTestPath] # results[TTestPath] =>
           /\ pc = "validate"
           /\ results'[TTestPath] = <<csv_text(t_test_results_df')>>
    /\ pc' = "validate" => Len(results'[ScoredPath]) = 1
    /\ pc' = "done" =>
           /\ Len(results'[ScoredPath]) = 1
           /\ Len(results'[TTestPath]) = 1

\* C8 (amended): no derived entity is mutated after it has been computed,
\* and each output file is written exactly once, right after its own table
\* is built: the scored file at the end of cell 11, before the Validator
\* runs, and the t-test file at the end of cell 12, the pipeline's last
\* step.
C8_Lifecycle == [][C8_Step]_vars

\* C8 witness: the scored file is on disk while the Validator has not run.
C8_Witness ==
    /\ pc = "validate"
    /\ Len(results[ScoredPath]) = 1
    /\ results[TTestPath] = <<>>
    /\ selected_features.rows # <<>>

C10_ScaledIsNeverRead ==
    /\ Executed("split") =>
           /\ X = drop_label(read_csv(file))
           /\ y = "label"
    /\ Executed("scale") =>
           /\ X_scaled = [X EXCEPT !.values = "standardized"]
           /\ X.values = "raw"
    /\ Executed("lasso") => (lasso.X = X /\ lasso.y = y)
    /\ Executed("rf") => (rf.X = X /\ rf.y = y)
    /\ Executed("svmrfe") => (rfe.X = X /\ rfe.y = y)
    /\ pc = "done" =>
           /\ data = read_csv(file)
           /\ common_biomarkers_df.values = "raw"
           /\ \A i \in 1..Len(t_test_results_df.rows) :
                  /\ t_test_results_df.rows[i].t_statistic.values = "raw"
                  /\ t_test_results_df.rows[i].p_value.values = "raw"

\* C10 witness: a completed run in which a t-test was computed, with
\* X_scaled present.
C10_Witness ==
    /\ pc = "done"
    /\ X_scaled.values = "standardized"
    /\ t_test_results_df.rows # <<>>

====
